---- MODULE Spec2Model ----
(***************************************************************************)
(* Model of the two EC2/AMI audit scripts:                                 *)
(*   check_ami.py  (Program A): list instances, fetch the metadata of the  *)
(*                 images they run, report images older than 90 days;      *)
(*   latest_ami.py (Program B): find the newest image matching a filter    *)
(*                 and print its details with a rotation verdict.          *)
(* The EC2 API (boto3) is the environment: every call either raises or     *)
(* returns a response drawn from a bounded set of well-typed responses.    *)
(***************************************************************************)
EXTENDS Integers, Sequences, FiniteSets, TLC

VARIABLES
    prog,           \* which script runs: "A" (check_ami.py) or "B" (latest_ami.py)
    region,         \* args.region
    pc,             \* position of main()
    response,       \* outcome of the last EC2 API call
    calls,          \* EC2 API calls issued so far, in order
    out,            \* lines printed to standard output, in order
    instances,      \* main(): instances
    ami_ids,        \* main(): ami_ids
    ami_info,       \* main(): ami_info (a dict, as a sequence of key/value entries)
    ami_failed,     \* whether get_ami_info took its except branch
    old_amis,       \* main(): old_amis
    latest_ami,     \* main(): latest_ami
    rotation_days,  \* check_ami_rotation(): rotation_days
    uncaught        \* the exception that left main(), if any

vars == <<prog, region, pc, response, calls, out, instances, ami_ids, ami_info,
          ami_failed, old_amis, latest_ami, rotation_days, uncaught>>

----------------------------------------------------------------------------
\* Bounds of the model

\* most instances in one describe_instances response, over all its reservations
MaxInstances == 2
\* most image records in one describe_images response
MaxImages == 2

----------------------------------------------------------------------------
\* Program constants

\* default of check_ami_rotation's rotation_days parameter
ROTATION_DAYS == 90
\* the literal threshold of latest_ami.main's verdict
VERDICT_DAYS == 90
\* timedelta.days counts whole days; the model's clock counts hours
HoursPerDay == 24
\* the length the image table cuts a name to
NAME_WIDTH == 29

----------------------------------------------------------------------------
\* Values

SeqsUpTo(S, n) == UNION {[1..k -> S] : k \in 0..n}

Range(s) == {s[i] : i \in 1..Len(s)}

\* A str, as the sequence of its characters
Str(chars) == chars

\* a key that is not in a dict (in the shape of a str, and no str of the model)
Absent == Str(<<"<absent>">>)

\* the literal 'Unknown'
Unknown == Str(<<"U", "n", "k", "n", "o", "w", "n">>)

\* a name of 30 characters, one more than the image table shows
LongName ==
    Str(<<"a", "b", "c", "d", "e", "f", "g", "h", "i", "j",
          "a", "b", "c", "d", "e", "f", "g", "h", "i", "j",
          "a", "b", "c", "d", "e", "f", "g", "h", "i", "j">>)

\* Regions the scripts are started with. boto3.client() rejects a region
\* name that is no valid host label (botocore InvalidRegionError) before any
\* request is sent.
Regions == {"us-east-1", "us_east_1"}
MalformedRegions == {"us_east_1"}

\* Image ids, in the order Python's sorted() gives them
AmiOrder == <<"ami-1", "ami-2">>
ImageIds == Range(AmiOrder)
ami_rank(id) == CHOOSE i \in 1..Len(AmiOrder) : AmiOrder[i] = id

StateNames == {"running", "terminated"}

\* An instance record of a describe_instances response: the keys the
\* control flow reads (InstanceId, InstanceType and LaunchTime are only
\* copied into the instance table).
Instance == [ImageId : ImageIds, State : [Name : StateNames]]

\* A reservation of a describe_instances response holds at least one instance
Reservation == [Instances : SeqsUpTo(Instance, MaxInstances) \ {<<>>}]

RECURSIVE instance_count(_)
instance_count(reservations) ==
    IF reservations = <<>> THEN 0
    ELSE Len(Head(reservations).Instances) + instance_count(Tail(reservations))

ReservationLists ==
    {r \in SeqsUpTo(Reservation, MaxInstances) : instance_count(r) <= MaxInstances}

\* The clock, in hours since the epoch: datetime.now(timezone.utc)
Now == 200 * HoursPerDay

\* Creation instants: 120 days and 5 hours ago (120 days old), 90 days and
\* 23 hours ago (90 days old)
Times == {Now - 120 * HoursPerDay - 5, Now - 90 * HoursPerDay - 23}

\* CreationDate strings: "...Z" (UTC), an ISO string with no offset, and a
\* string that is no ISO-8601 timestamp
CreationDates ==
    [fmt : {"Z"}, t : Times]
        \cup {[fmt |-> "naive", t |-> Now - 120 * HoursPerDay - 5]}
        \cup {[fmt |-> "bad", t |-> 0]}

\* Name values: a name longer than the image table shows, or no Name key
\* (the default 'Unknown' is the short name of the model)
Names == {LongName, Absent}

\* An image record of a describe_images response
Image == [ImageId : ImageIds, CreationDate : CreationDates, Name : Names]

ImageLists == SeqsUpTo(Image, MaxImages)

\* Python's None, in the shape of an image record
None == [ImageId |-> "None", CreationDate |-> [fmt |-> "bad", t |-> 0], Name |-> Absent]

\* Outcome of an EC2 API call: it raised, or it returned a response
NoResponse == [op |-> "none", ok |-> FALSE, Reservations |-> <<>>, Images |-> <<>>]
Raised(op) == [op |-> op, ok |-> FALSE, Reservations |-> <<>>, Images |-> <<>>]
InstancesResponse(r) ==
    [op |-> "describe_instances", ok |-> TRUE, Reservations |-> r, Images |-> <<>>]
ImagesResponse(imgs) ==
    [op |-> "describe_images", ok |-> TRUE, Reservations |-> <<>>, Images |-> imgs]

DescribeInstancesOutcomes ==
    {Raised("describe_instances")} \cup {InstancesResponse(r) : r \in ReservationLists}
DescribeImagesOutcomes ==
    {Raised("describe_images")} \cup {ImagesResponse(imgs) : imgs \in ImageLists}

Call(op, ids) == [op |-> op, ImageIds |-> ids]

\* One print() call
Line(k, id, n, txt) == [k |-> k, id |-> id, n |-> n, txt |-> txt]

NoException == [type |-> "none", in |-> "none"]
Exception(type, in) == [type |-> type, in |-> in]

\* the interpreter's exit status
exit_code == IF uncaught = NoException THEN 0 ELSE 1

----------------------------------------------------------------------------
\* datetime

\* datetime.fromisoformat(s.replace('Z', '+00:00'))
fromisoformat(s) ==
    IF s.fmt = "bad" THEN [ok |-> FALSE, aware |-> FALSE, t |-> 0]
    ELSE [ok |-> TRUE, aware |-> s.fmt = "Z", t |-> s.t]

\* datetime.now(timezone.utc) - creation_date is a TypeError for a naive
\* creation_date
can_subtract(dt) == dt.aware

\* (datetime.now(timezone.utc) - creation_date).days
age_days_of(dt) == (Now - dt.t) \div HoursPerDay

----------------------------------------------------------------------------
\* dict, as a sequence of entries in insertion order

dict_keys(d) == {d[i].key : i \in 1..Len(d)}

dict_get(d, k) == d[CHOOSE i \in 1..Len(d) : d[i].key = k].val

\* d[k] = v
dict_set(d, k, v) ==
    IF k \in dict_keys(d)
    THEN [i \in 1..Len(d) |-> IF d[i].key = k THEN [key |-> k, val |-> v] ELSE d[i]]
    ELSE Append(d, [key |-> k, val |-> v])

\* sorted(xs), for a list of image ids
RECURSIVE insert_sorted(_, _)
insert_sorted(x, s) ==
    IF s = <<>> THEN <<x>>
    ELSE IF ami_rank(x) < ami_rank(Head(s)) THEN <<x>> \o s
    ELSE <<Head(s)>> \o insert_sorted(x, Tail(s))

RECURSIVE sorted(_)
sorted(xs) == IF xs = <<>> THEN <<>> ELSE insert_sorted(Head(xs), sorted(Tail(xs)))

\* the lists with exactly the elements of S, each once
Orderings(S) ==
    {s \in [1..Cardinality(S) -> S] : \A i, j \in 1..Cardinality(S) : s[i] = s[j] => i = j}

----------------------------------------------------------------------------
\* check_ami.py

\* boto3.client('ec2', region_name=region), outside every try block
boto3_client_raises(reg) == reg \in MalformedRegions

\* keep_instance with the state filter left out (a fault C3 must detect)
keep_instance_any_state(instance) == TRUE

\* get_ec2_instances: the filter on the instance state
keep_instance(instance) == instance.State.Name # "terminated"

\* get_ec2_instances: the two nested loops over response['Reservations']
RECURSIVE collect_instances(_)
collect_instances(reservations) ==
    IF reservations = <<>> THEN <<>>
    ELSE SelectSeq(Head(reservations).Instances, keep_instance)
            \o collect_instances(Tail(reservations))

\* get_ec2_instances(region), given what describe_instances does
get_ec2_instances(reg, outcome) ==
    IF boto3_client_raises(reg)
    THEN [raised |-> Exception("InvalidRegionError", "get_ec2_instances"),
          ret |-> <<>>, calls |-> <<>>, out |-> <<>>]
    ELSE IF ~outcome.ok
    THEN [raised |-> NoException, ret |-> <<>>,
          calls |-> <<Call("describe_instances", <<>>)>>,
          out |-> <<Line("error_fetching_instances", "", 0, "ClientError")>>]
    ELSE [raised |-> NoException, ret |-> collect_instances(outcome.Reservations),
          calls |-> <<Call("describe_instances", <<>>)>>, out |-> <<>>]

\* describe_images_calls with one call per image id instead of one call for
\* the list (a fault C8 must detect)
describe_images_calls_per_id(ids) ==
    [i \in 1..Len(ids) |-> Call("describe_images", <<ids[i]>>)]

\* get_ami_info: the API calls it issues for the list ami_ids
describe_images_calls(ids) ==
    IF ids = <<>> THEN <<>> ELSE <<Call("describe_images", ids)>>

\* get_ami_info: the loop over response['Images'], from image i on, with
\* the entries accumulated so far; the loop ends at the first record whose
\* CreationDate does not parse (ValueError) or parses to a naive datetime
\* (TypeError in the age computation), before that record is stored
RECURSIVE ami_info_loop(_, _, _)
ami_info_loop(images, i, acc) ==
    IF i > Len(images) THEN [ami_info |-> acc, failed |-> FALSE, error |-> "none"]
    ELSE LET image == images[i]
             creation_date == fromisoformat(image.CreationDate)
         IN IF ~creation_date.ok
            THEN [ami_info |-> acc, failed |-> TRUE, error |-> "ValueError"]
            ELSE IF ~can_subtract(creation_date)
            THEN [ami_info |-> acc, failed |-> TRUE, error |-> "TypeError"]
            ELSE ami_info_loop(images, i + 1,
                    dict_set(acc, image.ImageId,
                        [name |-> IF image.Name = Absent THEN Unknown ELSE image.Name,
                         creation_date |-> creation_date.t,
                         age_days |-> age_days_of(creation_date)]))

\* get_ami_info(region, ami_ids), given what describe_images does; the
\* client is made first, before the test on ami_ids and outside the try
get_ami_info(reg, ids, outcome) ==
    IF boto3_client_raises(reg)
    THEN [raised |-> Exception("InvalidRegionError", "get_ami_info"),
          ami_info |-> <<>>, failed |-> FALSE, calls |-> <<>>, out |-> <<>>]
    ELSE IF ids = <<>>
    THEN [raised |-> NoException,
          ami_info |-> <<>>, failed |-> FALSE, calls |-> <<>>, out |-> <<>>]
    ELSE IF ~outcome.ok
    THEN [raised |-> NoException,
          ami_info |-> <<>>, failed |-> TRUE, calls |-> describe_images_calls(ids),
          out |-> <<Line("error_fetching_ami", "", 0, "ClientError")>>]
    ELSE LET r == ami_info_loop(outcome.Images, 1, <<>>)
         IN [raised |-> NoException,
             ami_info |-> r.ami_info, failed |-> r.failed,
             calls |-> describe_images_calls(ids),
             out |-> IF r.failed
                     THEN <<Line("error_fetching_ami", "", 0, r.error)>>
                     ELSE <<>>]

\* is_old with a comparison that is not strict (a fault C4 must detect)
is_old_or_equal(info, days) == info.age_days >= days

\* check_ami_rotation: the test on one image
is_old(info, days) == info.age_days > days

\* check_ami_rotation(ami_info, rotation_days)
RECURSIVE check_ami_rotation(_, _)
check_ami_rotation(info, days) ==
    IF info = <<>> THEN <<>>
    ELSE (IF is_old(Head(info).val, days) THEN <<Head(info).key>> ELSE <<>>)
            \o check_ami_rotation(Tail(info), days)

\* ami_ids_choices without set(): the ids are not deduplicated (a fault C6
\* must detect)
ami_ids_with_duplicates(insts) == {[i \in 1..Len(insts) |-> insts[i].ImageId]}

\* main: list(set([instance['ImageId'] for instance in instances])); the
\* order of a list made from a set of strings is any order
ami_ids_choices(insts) == Orderings({insts[i].ImageId : i \in 1..Len(insts)})

\* main: the summary
summary_lines(insts, ids) ==
    <<Line("summary", "", 0, "SUMMARY:"),
      Line("total_instances", "", Len(insts), "Total EC2 instances"),
      Line("unique_amis", "", Len(ids), "Unique AMIs in use")>>

\* main: the instance table
instance_table(insts) ==
    <<Line("instances_title", "", 0, "EC2 INSTANCES:"),
      Line("rule", "", 80, "-"),
      Line("instances_header", "", 0, "Instance ID"),
      Line("rule", "", 80, "-")>>
        \o [i \in 1..Len(insts) |-> Line("instance_row", insts[i].ImageId, 0, "")]

\* main: name = info['name'][:29] if len(info['name']) > 29 else info['name']
table_name(name) ==
    IF Len(name) > NAME_WIDTH THEN SubSeq(name, 1, NAME_WIDTH) ELSE name

\* main: one row of the image table
ami_row(id, info) ==
    IF id \in dict_keys(info)
    THEN Line("ami_row", id, dict_get(info, id).age_days,
              table_name(dict_get(info, id).name))
    ELSE Line("ami_row_unknown", id, 0, Unknown)

\* main: the image table
ami_table(ids, info) ==
    <<Line("amis_title", "", 0, "AMI INFORMATION:"),
      Line("rule", "", 80, "-"),
      Line("amis_header", "", 0, "AMI ID"),
      Line("rule", "", 80, "-")>>
        \o [i \in 1..Len(ids) |-> ami_row(sorted(ids)[i], info)]

\* main: the rotation section
rotation_lines(info, old) ==
    IF old # <<>>
    THEN <<Line("rotation_warning", "", 0, "AMI ROTATION WARNING:"),
           Line("rotation_warning_list", "", ROTATION_DAYS, "older than 90 days")>>
            \o [i \in 1..Len(old) |->
                    Line("old_ami", old[i], dict_get(info, old[i]).age_days,
                         dict_get(info, old[i]).name)]
    ELSE <<Line("all_within_policy", "", ROTATION_DAYS,
                "All AMIs are within the 90-day rotation policy.")>>

----------------------------------------------------------------------------
\* latest_ami.py

\* later with a comparison that is not strict, so that the last of several
\* equally recent images wins (a fault C5 must detect)
later_or_equal(val, maxval) == val.t >= maxval.t

\* max(): an item replaces the maximum when its key is greater
later(val, maxval) == val.t > maxval.t

\* max(response['Images'], key=...): the loop from item i on, best being
\* the index of the maximum so far. Parsing a key raises ValueError;
\* comparing a naive with an aware datetime raises TypeError.
RECURSIVE max_loop(_, _, _)
max_loop(images, i, best) ==
    IF i > Len(images) THEN [ok |-> TRUE, item |-> images[best], error |-> "none"]
    ELSE LET val == fromisoformat(images[i].CreationDate)
             maxval == fromisoformat(images[best].CreationDate)
         IN IF ~val.ok THEN [ok |-> FALSE, item |-> None, error |-> "ValueError"]
            ELSE IF val.aware # maxval.aware
            THEN [ok |-> FALSE, item |-> None, error |-> "TypeError"]
            ELSE max_loop(images, i + 1, IF later(val, maxval) THEN i ELSE best)

\* max(response['Images'], key=...) for a non-empty list
max_by_creation_date(images) ==
    IF ~fromisoformat(images[1].CreationDate).ok
    THEN [ok |-> FALSE, item |-> None, error |-> "ValueError"]
    ELSE max_loop(images, 2, 1)

\* get_latest_ami(region, name_pattern, owner), given what describe_images does
get_latest_ami(reg, outcome) ==
    IF boto3_client_raises(reg)
    THEN [raised |-> Exception("InvalidRegionError", "get_latest_ami"),
          ret |-> None, calls |-> <<>>, out |-> <<>>]
    ELSE IF ~outcome.ok
    THEN [raised |-> NoException, ret |-> None,
          calls |-> <<Call("describe_images", <<>>)>>,
          out |-> <<Line("error_fetching_ami", "", 0, "ClientError")>>]
    ELSE IF outcome.Images = <<>>
    THEN [raised |-> NoException, ret |-> None,
          calls |-> <<Call("describe_images", <<>>)>>, out |-> <<>>]
    ELSE LET r == max_by_creation_date(outcome.Images)
         IN [raised |-> NoException, ret |-> r.item,
             calls |-> <<Call("describe_images", <<>>)>>,
             out |-> IF r.ok THEN <<>>
                     ELSE <<Line("error_fetching_ami", "", 0, r.error)>>]

\* format_ami_info(ami). The images of the model carry no Description, no
\* Tags and no BlockDeviceMappings, so the optional parts print their
\* defaults. ami['Name'] is read with no default.
format_ami_info(ami) ==
    LET creation_date == fromisoformat(ami.CreationDate)
        head == <<Line("latest_ami_found", "", 0, "Latest AMI Found:"),
                  Line("rule", "", 18, "="),
                  Line("detail_ami_id", ami.ImageId, 0, "AMI ID:")>>
    IN  IF ~creation_date.ok
        THEN [raised |-> Exception("ValueError", "format_ami_info"), out |-> <<>>]
        ELSE IF ~can_subtract(creation_date)
        THEN [raised |-> Exception("TypeError", "format_ami_info"), out |-> <<>>]
        ELSE IF ami.Name = Absent
        THEN [raised |-> Exception("KeyError", "format_ami_info"), out |-> head]
        ELSE [raised |-> NoException,
              out |-> head \o
                 <<Line("detail_name", ami.ImageId, 0, ami.Name),
                   Line("detail_description", ami.ImageId, 0, "N/A"),
                   Line("detail_owner", ami.ImageId, 0, "Owner ID:"),
                   Line("detail_architecture", ami.ImageId, 0, "Architecture:"),
                   Line("detail_root_device", ami.ImageId, 0, "Root Device:"),
                   Line("detail_virtualization", ami.ImageId, 0, "Virtualization:"),
                   Line("detail_state", ami.ImageId, 0, "State:"),
                   Line("detail_created", ami.ImageId, creation_date.t, "Created:"),
                   Line("detail_age", ami.ImageId, age_days_of(creation_date), "Age:"),
                   Line("block_device_mappings", "", 0, "Block Device Mappings:")>>]

\* main: the rotation verdict on the image found
verdict_lines(ami) ==
    LET age_days == age_days_of(fromisoformat(ami.CreationDate))
    IN  IF age_days > VERDICT_DAYS
        THEN <<Line("verdict_warning", ami.ImageId, age_days, "WARNING: (>90 days)"),
               Line("verdict_advice", "", 0, "Consider updating to a newer AMI")>>
        ELSE <<Line("verdict_ok", ami.ImageId, age_days,
                    "AMI is within 90-day rotation policy")>>

\* not_found_lines followed by a rotation verdict although no image was
\* found (a fault C7 must detect)
not_found_lines_with_verdict ==
    <<Line("no_ami_found", "", 0, "No AMI found matching the specified criteria."),
      Line("possible_reasons", "", 0, "Possible reasons:"),
      Line("reason", "", 1, "- No AMIs with the specified name pattern exist"),
      Line("reason", "", 2, "- AMIs might be owned by a different account"),
      Line("reason", "", 3, "- AMIs might be in a different region"),
      Line("reason", "", 4, "- AMIs might be in 'pending' or 'failed' state"),
      Line("verdict_ok", "None", 0, "AMI is within 90-day rotation policy")>>

\* main: what is printed when get_latest_ami returned None
not_found_lines ==
    <<Line("no_ami_found", "", 0, "No AMI found matching the specified criteria."),
      Line("possible_reasons", "", 0, "Possible reasons:"),
      Line("reason", "", 1, "- No AMIs with the specified name pattern exist"),
      Line("reason", "", 2, "- AMIs might be owned by a different account"),
      Line("reason", "", 3, "- AMIs might be in a different region"),
      Line("reason", "", 4, "- AMIs might be in 'pending' or 'failed' state")>>

----------------------------------------------------------------------------
\* The runs of the two scripts

Init ==
    /\ prog \in {"A", "B"}
    /\ region \in Regions
    /\ pc = "start"
    /\ response = NoResponse
    /\ calls = <<>>
    /\ out = <<>>
    /\ instances = <<>>
    /\ ami_ids = <<>>
    /\ ami_info = <<>>
    /\ ami_failed = FALSE
    /\ old_amis = <<>>
    /\ latest_ami = None
    /\ rotation_days = ROTATION_DAYS
    /\ uncaught = NoException

\* check_ami.main, up to the return of get_ec2_instances
A_ListInstances ==
    /\ prog = "A"
    /\ pc = "start"
    /\ \E outcome \in DescribeInstancesOutcomes :
        LET r == get_ec2_instances(region, outcome)
        IN  /\ out' = out \o <<Line("checking", region, 0, "Checking EC2 instances in region"),
                               Line("rule", "", 50, "=")>> \o r.out
            /\ calls' = calls \o r.calls
            /\ response' = IF r.calls = <<>> THEN response ELSE outcome
            /\ instances' = r.ret
            /\ uncaught' = r.raised
            /\ pc' = IF r.raised = NoException THEN "A_listed" ELSE "exit"
    /\ UNCHANGED <<prog, region, ami_ids, ami_info, ami_failed, old_amis, latest_ami,
                   rotation_days>>

\* check_ami.main: no instances, the early return
A_NoInstances ==
    /\ prog = "A"
    /\ pc = "A_listed"
    /\ instances = <<>>
    /\ out' = Append(out, Line("no_instances", "", 0,
                               "No EC2 instances found or error occurred."))
    /\ pc' = "exit"
    /\ UNCHANGED <<prog, region, response, calls, instances, ami_ids, ami_info,
                   ami_failed, old_amis, latest_ami, rotation_days, uncaught>>

\* check_ami.main: ami_ids and the call of get_ami_info
A_GetAmiInfo ==
    /\ prog = "A"
    /\ pc = "A_listed"
    /\ instances # <<>>
    /\ \E ids \in ami_ids_choices(instances), outcome \in DescribeImagesOutcomes :
        LET r == get_ami_info(region, ids, outcome)
        IN  /\ ami_ids' = ids
            /\ ami_info' = r.ami_info
            /\ ami_failed' = r.failed
            /\ calls' = calls \o r.calls
            /\ response' = IF r.calls = <<>> THEN response ELSE outcome
            /\ out' = out \o r.out
            /\ uncaught' = r.raised
            /\ pc' = IF r.raised = NoException THEN "A_fetched" ELSE "exit"
    /\ UNCHANGED <<prog, region, instances, old_amis, latest_ami, rotation_days>>

\* check_ami.main: the report
A_Report ==
    /\ prog = "A"
    /\ pc = "A_fetched"
    /\ rotation_days' = ROTATION_DAYS
    /\ old_amis' = check_ami_rotation(ami_info, ROTATION_DAYS)
    /\ out' = out \o summary_lines(instances, ami_ids) \o instance_table(instances)
                  \o ami_table(ami_ids, ami_info) \o rotation_lines(ami_info, old_amis')
    /\ pc' = "exit"
    /\ UNCHANGED <<prog, region, response, calls, instances, ami_ids, ami_info,
                   ami_failed, latest_ami, uncaught>>

\* latest_ami.main, up to the return of get_latest_ami
B_FindLatest ==
    /\ prog = "B"
    /\ pc = "start"
    /\ \E outcome \in DescribeImagesOutcomes :
        LET r == get_latest_ami(region, outcome)
        IN  /\ out' = out \o <<Line("searching", region, 0, "Searching for latest AMI in region"),
                               Line("name_pattern", "", 0, "Name pattern:"),
                               Line("owner", "", 0, "Owner:"),
                               Line("rule", "", 50, "=")>> \o r.out
            /\ calls' = calls \o r.calls
            /\ response' = IF r.calls = <<>> THEN response ELSE outcome
            /\ latest_ami' = r.ret
            /\ uncaught' = r.raised
            /\ pc' = IF r.raised = NoException THEN "B_searched" ELSE "exit"
    /\ UNCHANGED <<prog, region, instances, ami_ids, ami_info, ami_failed, old_amis,
                   rotation_days>>

\* latest_ami.main: an image was found, format_ami_info prints it
B_Format ==
    /\ prog = "B"
    /\ pc = "B_searched"
    /\ latest_ami # None
    /\ LET r == format_ami_info(latest_ami)
       IN  /\ out' = out \o r.out
           /\ uncaught' = r.raised
           /\ pc' = IF r.raised = NoException THEN "B_formatted" ELSE "exit"
    /\ UNCHANGED <<prog, region, response, calls, instances, ami_ids, ami_info,
                   ami_failed, old_amis, latest_ami, rotation_days>>

\* latest_ami.main: the rotation verdict
B_Verdict ==
    /\ prog = "B"
    /\ pc = "B_formatted"
    /\ out' = out \o verdict_lines(latest_ami)
    /\ pc' = "exit"
    /\ UNCHANGED <<prog, region, response, calls, instances, ami_ids, ami_info,
                   ami_failed, old_amis, latest_ami, rotation_days, uncaught>>

\* latest_ami.main: no image was found
B_NotFound ==
    /\ prog = "B"
    /\ pc = "B_searched"
    /\ latest_ami = None
    /\ out' = out \o not_found_lines
    /\ pc' = "exit"
    /\ UNCHANGED <<prog, region, response, calls, instances, ami_ids, ami_info,
                   ami_failed, old_amis, latest_ami, rotation_days, uncaught>>

Next ==
    \/ A_ListInstances
    \/ A_NoInstances
    \/ A_GetAmiInfo
    \/ A_Report
    \/ B_FindLatest
    \/ B_Format
    \/ B_Verdict
    \/ B_NotFound

Spec == Init /\ [][Next]_vars

----------------------------------------------------------------------------
\* check_ami_rotation on its own: any metadata map, any threshold

Ages == {0, 1, 89, 90, 91, 120}
Thresholds == {0, 1, 89, 90, 91}

\* the entries get_ami_info builds, for an image of the given age
AmiInfoValues ==
    {[name |-> LongName, creation_date |-> Now - a * HoursPerDay, age_days |-> a] :
        a \in Ages}

\* the dicts over the image ids: no key twice, any insertion order
AmiInfoDicts ==
    {d \in SeqsUpTo([key : ImageIds, val : AmiInfoValues], Cardinality(ImageIds)) :
        \A i, j \in 1..Len(d) : d[i].key = d[j].key => i = j}

InitRotation ==
    /\ prog = "check_ami_rotation"
    /\ region \in Regions
    /\ pc = "start"
    /\ response = NoResponse
    /\ calls = <<>>
    /\ out = <<>>
    /\ instances = <<>>
    /\ ami_ids = <<>>
    /\ ami_info \in AmiInfoDicts
    /\ ami_failed = FALSE
    /\ old_amis = <<>>
    /\ latest_ami = None
    /\ rotation_days \in Thresholds
    /\ uncaught = NoException

\* one call of check_ami_rotation(ami_info, rotation_days)
Rotate ==
    /\ prog = "check_ami_rotation"
    /\ pc = "start"
    /\ old_amis' = check_ami_rotation(ami_info, rotation_days)
    /\ pc' = "exit"
    /\ UNCHANGED <<prog, region, response, calls, out, instances, ami_ids, ami_info,
                   ami_failed, latest_ami, rotation_days, uncaught>>

NextRotation == Rotate

SpecRotation == InitRotation /\ [][NextRotation]_vars

----------------------------------------------------------------------------
\* Properties

Printed(k) == \E i \in 1..Len(out) : out[i].k = k

KindsOf(lines) == [i \in 1..Len(lines) |-> lines[i].k]

NoDuplicates(s) == \A i, j \in 1..Len(s) : s[i] = s[j] => i = j

\* C1: every run ends in a normal exit: when the script has ended, its exit
\* status is 0 and no exception left main().
C1_AlwaysExitsZero == pc = "exit" => exit_code = 0

\* C2: none of get_ec2_instances, get_ami_info, get_latest_ami raises to
\* its caller; a failed call is logged and replaced by the fallback value
\* (the empty list, a map, None).
C2_FetchersNeverRaise ==
    /\ uncaught.in \notin {"get_ec2_instances", "get_ami_info", "get_latest_ami"}
    /\ (prog = "A" /\ pc = "A_listed" /\ ~response.ok)
            => (instances = <<>> /\ Printed("error_fetching_instances"))
    /\ (prog = "A" /\ pc = "A_fetched" /\ ~response.ok) => Printed("error_fetching_ami")
    /\ (prog = "B" /\ pc = "B_searched" /\ ~response.ok)
            => (latest_ami = None /\ Printed("error_fetching_ami"))

\* all instances of a response, reservation by reservation
RECURSIVE AllInstances(_)
AllInstances(reservations) ==
    IF reservations = <<>> THEN <<>>
    ELSE Head(reservations).Instances \o AllInstances(Tail(reservations))

NotTerminated(instance) == instance.State.Name # "terminated"

\* C3: when describe_instances succeeds, get_ec2_instances returns exactly
\* the instances of the response that are not terminated, in response
\* order, each once, and no terminated one.
C3_NonTerminatedExactly ==
    (prog = "A" /\ pc = "A_listed" /\ response.ok)
        => /\ instances = SelectSeq(AllInstances(response.Reservations), NotTerminated)
           /\ \A i \in 1..Len(instances) : instances[i].State.Name # "terminated"

\* C3 happens: two reservations, a terminated instance dropped and a
\* running one kept
C3_Witness ==
    /\ prog = "A" /\ pc = "A_listed" /\ response.ok
    /\ Len(response.Reservations) = 2
    /\ \E i \in 1..Len(AllInstances(response.Reservations)) :
            AllInstances(response.Reservations)[i].State.Name = "terminated"
    /\ Len(instances) = 1

\* C4: check_ami_rotation returns exactly the ids of the map whose age is
\* strictly greater than the threshold, each once; so a higher threshold
\* never adds an id, and with threshold 0 every image of age > 0 is returned.
C4_StrictlyOlderExactly ==
    (prog = "check_ami_rotation" /\ pc = "exit")
        => /\ Range(old_amis) =
                {k \in dict_keys(ami_info) : dict_get(ami_info, k).age_days > rotation_days}
           /\ NoDuplicates(old_amis)
           /\ \A t \in Thresholds :
                t >= rotation_days
                    => Range(check_ami_rotation(ami_info, t)) \subseteq Range(old_amis)
           /\ rotation_days = 0
                => \A k \in dict_keys(ami_info) :
                        dict_get(ami_info, k).age_days > 0 => k \in Range(old_amis)

\* C4 happens: one image exactly as old as the threshold (kept out) and an
\* older one (returned)
C4_Witness ==
    /\ prog = "check_ami_rotation" /\ pc = "exit"
    /\ \E k \in dict_keys(ami_info) :
            dict_get(ami_info, k).age_days = rotation_days /\ k \notin Range(old_amis)
    /\ Len(old_amis) = 1

\* every CreationDate parses, and all parse to datetimes max() can compare
Comparable(images) ==
    /\ \A i \in 1..Len(images) : images[i].CreationDate.fmt # "bad"
    /\ \A i, j \in 1..Len(images) : images[i].CreationDate.fmt = images[j].CreationDate.fmt

\* C5: when the filtered query succeeds, get_latest_ami returns None for
\* an empty list, and otherwise the first image of the list that has the
\* maximum creation timestamp.
C5_LatestFirstWins ==
    (prog = "B" /\ pc = "B_searched" /\ response.ok /\ Comparable(response.Images))
        => IF response.Images = <<>> THEN latest_ami = None
           ELSE \E i \in 1..Len(response.Images) :
                    /\ latest_ami = response.Images[i]
                    /\ \A j \in 1..Len(response.Images) :
                            response.Images[j].CreationDate.t
                                <= response.Images[i].CreationDate.t
                    /\ \A j \in 1..(i - 1) :
                            response.Images[j].CreationDate.t
                                < response.Images[i].CreationDate.t

\* C5 happens: two different images with the same, maximum timestamp, the
\* first one returned
C5_Witness ==
    /\ prog = "B" /\ pc = "B_searched" /\ response.ok
    /\ Len(response.Images) = 2
    /\ response.Images[1] # response.Images[2]
    /\ response.Images[1].CreationDate = response.Images[2].CreationDate
    /\ response.Images[1].CreationDate.fmt = "Z"
    /\ latest_ami = response.Images[1]

\* C6: the "Unique AMIs in use" count of a rendered summary is the number
\* of distinct image ids of the non-terminated instances.
C6_UniqueAmiCount ==
    /\ \A i \in 1..Len(out) :
            out[i].k = "unique_amis"
                => out[i].n = Cardinality({instances[j].ImageId : j \in 1..Len(instances)})
    /\ (prog = "A" /\ pc = "exit" /\ instances # <<>>) => Printed("unique_amis")

\* C6 happens: two instances of the same image, counted once
C6_Witness ==
    /\ prog = "A" /\ pc = "exit"
    /\ Len(instances) = 2
    /\ instances[1].ImageId = instances[2].ImageId
    /\ \E i \in 1..Len(out) : out[i].k = "unique_amis" /\ out[i].n = 1

DetailKinds ==
    {"latest_ami_found", "detail_ami_id", "detail_name", "detail_description",
     "detail_owner", "detail_architecture", "detail_root_device",
     "detail_virtualization", "detail_state", "detail_created", "detail_age",
     "block_device_mappings"}
VerdictKinds == {"verdict_warning", "verdict_advice", "verdict_ok"}

\* the run of Program B ended after get_latest_ami returned None
B_EndedWithNone == prog = "B" /\ pc = "exit" /\ uncaught = NoException /\ latest_ami = None

\* what follows the search header (and the error line of a failed query)
AfterHeader ==
    SubSeq(out, (IF Printed("error_fetching_ami") THEN 6 ELSE 5), Len(out))

\* C7 as stated: after the header come the "No AMI found" message and
\* exactly three possible-reasons lines, no detail block, no verdict.
C7_ThreeReasons ==
    B_EndedWithNone
        => /\ Cardinality({i \in 1..Len(out) : out[i].k = "reason"}) = 3
           /\ \A i \in 1..Len(out) : out[i].k \notin DetailKinds \cup VerdictKinds

\* C7, amended: after the header come the "No AMI found" message, the
\* "Possible reasons:" heading and exactly four possible-reasons lines,
\* no detail block, no verdict.
C7_FourReasons ==
    B_EndedWithNone
        => /\ KindsOf(AfterHeader) =
                <<"no_ami_found", "possible_reasons", "reason", "reason", "reason", "reason">>
           /\ Cardinality({i \in 1..Len(out) : out[i].k = "reason"}) = 4
           /\ \A i \in 1..Len(out) : out[i].k \notin DetailKinds \cup VerdictKinds

\* C7 happens: the query succeeded and matched no image
C7_Witness ==
    /\ B_EndedWithNone
    /\ response.ok
    /\ response.Images = <<>>
    /\ Printed("no_ami_found")

\* C8: in Program A, describe_images is issued only after describe_instances
\* has returned, at most once, the run issues at most two calls, and no
\* describe_images is issued for an empty id list (so none when the
\* instance list is empty or failed).
C8_CallOrder ==
    prog = "A"
        => /\ Len(calls) <= 2
           /\ \A i \in 1..Len(calls) :
                calls[i].op = "describe_images"
                    => /\ i = 2
                       /\ calls[1].op = "describe_instances"
                       /\ calls[i].ImageIds # <<>>
                       /\ instances # <<>>
           /\ Cardinality({i \in 1..Len(calls) : calls[i].op = "describe_images"}) <= 1
           /\ Cardinality({i \in 1..Len(calls) : calls[i].op = "describe_instances"}) <= 1

\* C8 happens: both calls issued, for two image ids
C8_Witness ==
    /\ prog = "A" /\ pc = "exit"
    /\ Len(calls) = 2
    /\ calls[2].op = "describe_images"
    /\ Len(calls[2].ImageIds) = 2

\* C9: a failed get_ami_info returns the empty map.
C9_FailedFetchIsEmpty == ami_failed => ami_info = <<>>

\* C10: an image id in use but absent from the metadata map is never
\* listed in the rotation warning, and the report does not declare it
\* within the 90-day rotation policy.
C10_UnknownNeitherWarnedNorCompliant ==
    (prog = "A" /\ pc = "exit" /\ Printed("summary"))
        => \A id \in Range(ami_ids) \ dict_keys(ami_info) :
                /\ \A i \in 1..Len(out) : out[i].k = "old_ami" => out[i].id # id
                /\ ~Printed("all_within_policy")

====
